---------------------------- MODULE Spec2Model ----------------------------
(***************************************************************************)
(* A model of the pf tasking system (src/sys/tasking.hpp).                  *)
(*                                                                         *)
(* The header defines the Task object: its two dependency counters, its    *)
(* two successor slots, priority and affinity, and the inline operations   *)
(* Task::Task, Task::starts, Task::ends, Task::setPriority and             *)
(* Task::setAffinity.  Those are translated from the code.  The scheduler  *)
(* (Task::scheduled, the worker loop, the queues, TaskSet::run) lives in   *)
(* tasking.cpp; it is modelled from the overview comment of the header     *)
(* and from the specification of the component.                            *)
(*                                                                         *)
(* A run of the model is one user program (a scenario): the main thread    *)
(* executes a script of API calls as thread 0 and then enters the tasking  *)
(* system; the other threads run the scheduling loop from the start; the   *)
(* body of a task is a list of API calls followed by the return of an     *)
(* optional continuation.                                                  *)
(***************************************************************************)
EXTENDS Integers, Sequences, FiniteSets

(* ------------------------------ bounds --------------------------------- *)

\* number of threads of the pool, the main thread (thread 0) included
NumWorkers == 2

\* number of elements of the task set of the "taskset" scenario
SetSize == 3

(* ------------------------- program constants --------------------------- *)

\* TaskPriority
CRITICAL == 0
HIGH == 1
NORMAL == 2
LOW == 3

\* TaskState
stNEW == 0
stREADY == 1
stRUNNING == 2
stDONE == 3

\* the default affinity 0xffffu: the task may run on any thread
ANY == 65535

\* the NULL task pointer
NULL == 0

Workers == 0 .. (NumWorkers - 1)
Prios == CRITICAL .. LOW
Tasks == 1 .. 10

VARIABLES
  scn,          \* the user program that is run
  mainpc,       \* position of the main thread in its script
  created,      \* the tasks constructed so far
  isSet,        \* the tasks that are TaskSets
  state,        \* Task::state
  toStart,      \* Task::toStart
  toEnd,        \* Task::toEnd
  toBeStarted,  \* Task::toBeStarted
  toBeEnded,    \* Task::toBeEnded
  priority,     \* Task::priority
  affinity,     \* Task::affinity
  elemNum,      \* TaskSet::elemNum
  wsQueue,      \* per thread, per priority: the work stealing queue
  afQueue,      \* per thread, per priority: the affinity FIFO
  frame,        \* per thread: the task whose run function is executing
  work,         \* per thread: the completions still to signal
  cont,         \* per thread: the task returned by the last run function
  parked,       \* per thread: sleeping on empty queues
  calls,        \* history: per task, the calls of its run function, in order
  completed,    \* history: per task, the calls of its run function that returned
  submitted,    \* history: the tasks handed to the scheduler
  contOf,       \* history: per task, the task that returned it as continuation
  wokeFor,      \* history: the pinned tasks whose insertion found their thread asleep
  intMain,      \* the main thread is signalled to stop
  intAll,       \* all the threads are signalled to stop
  exited,       \* per thread: it has left the scheduling loop
  ranAny,       \* history: per task, what each of its TaskingSystemRunAnyTask calls ran
  refCount      \* RefCount::refCounter of the task

taskVars == <<created, isSet, state, toStart, toEnd, toBeStarted, toBeEnded,
              priority, affinity, elemNum, submitted>>
queueVars == <<wsQueue, afQueue, parked, wokeFor>>
stopVars == <<intMain, intAll, exited>>
vars == <<scn, mainpc, created, isSet, state, toStart, toEnd, toBeStarted,
          toBeEnded, priority, affinity, elemNum, wsQueue, afQueue, frame,
          work, cont, parked, calls, completed, submitted, contOf, wokeFor,
          intMain, intAll, exited, ranAny, refCount>>

(* ------------------------- the user programs --------------------------- *)

\* An API call of a program: op is the call, a the task it is called on
\* (or constructed), b its argument.
Op(o, x, y) == [op |-> o, a |-> x, b |-> y]

Scenarios == {"chain", "chainRev", "fanout", "spawn", "spawnChild", "taskset",
              "affinity", "cont", "contAffinity", "late", "guard",
              "stop", "help", "bands", "twice",
              "cycle"}

\* "fanout": root R = 1, leaves L1..L8 = 2..9, sink S = 10
FanoutWiring ==
  [k \in 1 .. 16 |->
     IF k % 2 = 1 THEN Op("starts", 2 + (k - 1) \div 2, 1)
                  ELSE Op("starts", 10, 2 + (k - 1) \div 2)]

\* The script of the main thread.
Script(s) ==
  CASE s = "chain" ->
         \* A = 1, B = 2, C = 3: B.starts(A); C.starts(B); submit all
         << Op("new", 1, 0), Op("new", 2, 0), Op("new", 3, 0),
            Op("starts", 2, 1), Op("starts", 3, 2),
            Op("scheduled", 1, 0), Op("scheduled", 2, 0), Op("scheduled", 3, 0) >>
    [] s = "chainRev" ->
         << Op("new", 1, 0), Op("new", 2, 0), Op("new", 3, 0),
            Op("starts", 2, 1), Op("starts", 3, 2),
            Op("scheduled", 3, 0), Op("scheduled", 2, 0), Op("scheduled", 1, 0) >>
    [] s = "fanout" ->
         [k \in 1 .. 10 |-> Op("new", k, 0)] \o FanoutWiring
           \o [k \in 1 .. 10 |-> Op("scheduled", k, 0)]
    [] s = "spawn" ->
         \* A = 1 spawns C = 2 in its body with A.ends(C); A.starts(D), D = 3
         << Op("new", 1, 0), Op("new", 3, 0), Op("starts", 1, 3),
            Op("scheduled", 3, 0), Op("scheduled", 1, 0) >>
    [] s = "spawnChild" ->
         \* A = 1 spawns C = 2 in its body with C.ends(A); A.starts(D), D = 3
         << Op("new", 1, 0), Op("new", 3, 0), Op("starts", 1, 3),
            Op("scheduled", 3, 0), Op("scheduled", 1, 0) >>
    [] s = "taskset" ->
         \* task set T = 1 of SetSize elements; T.starts(F), F = 2
         << Op("newset", 1, SetSize), Op("new", 2, 0), Op("starts", 1, 2),
            Op("scheduled", 2, 0), Op("scheduled", 1, 0) >>
    [] s = "affinity" ->
         \* P = 1 pinned on thread 1, Q = 2 pinned on thread 0, X = 3 free
         \* with X.starts(Y), Y = 4 pinned on thread 1
         << Op("new", 1, 0), Op("setAffinity", 1, 1),
            Op("new", 2, 0), Op("setAffinity", 2, 0),
            Op("new", 3, 0), Op("new", 4, 0), Op("setAffinity", 4, 1),
            Op("setPriority", 4, HIGH), Op("starts", 3, 4),
            Op("scheduled", 4, 0), Op("scheduled", 1, 0),
            Op("scheduled", 3, 0), Op("scheduled", 2, 0) >>
    [] s = "cont" ->
         \* A = 1 submits a critical X = 3 and returns B = 2; L = 4 is low
         << Op("new", 1, 0), Op("new", 4, 0), Op("setPriority", 4, LOW),
            Op("scheduled", 4, 0), Op("scheduled", 1, 0) >>
    [] s = "contAffinity" ->
         \* A = 1 returns B = 2 which is pinned on thread 1
         << Op("new", 1, 0), Op("scheduled", 1, 0) >>
    [] s = "late" ->
         \* P = 1, T = 2: P.starts(T); T is submitted and waits; the body of
         \* P declares Q.starts(T) for a new Q = 3
         << Op("new", 1, 0), Op("new", 2, 0), Op("starts", 1, 2),
            Op("scheduled", 2, 0), Op("scheduled", 1, 0) >>
    [] s = "guard" ->
         \* P = 1, T = 2, Q = 3, U = 4: P.starts(T); Q.starts(U); P and Q are
         \* submitted; the body of Q submits T; nobody submits U
         << Op("new", 1, 0), Op("new", 2, 0), Op("new", 3, 0), Op("new", 4, 0),
            Op("starts", 1, 2), Op("starts", 3, 4),
            Op("scheduled", 1, 0), Op("scheduled", 3, 0) >>
    [] s = "stop" ->
         \* A = 1 signals the main thread to stop and submits D = 4; B = 2,
         \* which A starts, signals all the threads to stop; C = 3 does nothing
         << Op("new", 1, 0), Op("new", 2, 0), Op("new", 3, 0),
            Op("starts", 1, 2), Op("scheduled", 2, 0),
            Op("scheduled", 3, 0), Op("scheduled", 1, 0) >>
    [] s = "help" ->
         \* A = 1 submits D = 4, pinned on thread 0, and calls
         \* TaskingSystemRunAnyTask twice; B = 2 and C = 3 call it once
         << Op("new", 1, 0), Op("new", 2, 0), Op("new", 3, 0),
            Op("scheduled", 2, 0), Op("scheduled", 3, 0), Op("scheduled", 1, 0) >>
    [] s = "bands" ->
         \* L = 1 is LOW and pinned on thread 0, K = 2 is CRITICAL and free
         << Op("new", 1, 0), Op("setPriority", 1, LOW), Op("setAffinity", 1, 0),
            Op("new", 2, 0), Op("setPriority", 2, CRITICAL),
            Op("scheduled", 1, 0), Op("scheduled", 2, 0) >>
    [] s = "twice" ->
         \* A = 1, B = 2, C = 3: A.starts(B) then A.starts(C); A.ends(C) then
         \* A.ends(B); B.starts(NULL); B.ends(NULL)
         << Op("new", 1, 0), Op("new", 2, 0), Op("new", 3, 0),
            Op("starts", 1, 2), Op("starts", 1, 3),
            Op("ends", 1, 3), Op("ends", 1, 2),
            Op("starts", 2, NULL), Op("ends", 2, NULL),
            Op("scheduled", 1, 0), Op("scheduled", 2, 0), Op("scheduled", 3, 0) >>
    [] s = "cycle" ->
         \* A = 1, B = 2: A.starts(B); B.starts(A).  C = 3, D = 4:
         \* C.starts(D); D.ends(C)
         << Op("new", 1, 0), Op("new", 2, 0), Op("new", 3, 0), Op("new", 4, 0),
            Op("starts", 1, 2), Op("starts", 2, 1),
            Op("starts", 3, 4), Op("ends", 4, 3),
            Op("scheduled", 1, 0), Op("scheduled", 2, 0),
            Op("scheduled", 3, 0), Op("scheduled", 4, 0) >>

\* The API calls the run function of task t makes.
Body(s, t) ==
  CASE s = "spawn" /\ t = 1 ->
         << Op("new", 2, 0), Op("ends", 1, 2), Op("scheduled", 2, 0) >>
    [] s = "spawnChild" /\ t = 1 ->
         << Op("new", 2, 0), Op("ends", 2, 1), Op("scheduled", 2, 0) >>
    [] s = "cont" /\ t = 1 ->
         << Op("new", 2, 0), Op("new", 3, 0), Op("setPriority", 3, CRITICAL),
            Op("scheduled", 3, 0) >>
    [] s = "contAffinity" /\ t = 1 ->
         << Op("new", 2, 0), Op("setAffinity", 2, 1) >>
    [] s = "late" /\ t = 1 ->
         << Op("new", 3, 0), Op("starts", 3, 2), Op("scheduled", 3, 0) >>
    [] s = "guard" /\ t = 3 ->
         << Op("scheduled", 2, 0) >>
    [] s = "stop" /\ t = 1 ->
         << Op("interruptMain", 0, 0), Op("interruptMain", 0, 0),
            Op("new", 4, 0), Op("scheduled", 4, 0) >>
    [] s = "stop" /\ t = 2 ->
         << Op("interrupt", 0, 0), Op("interrupt", 0, 0) >>
    [] s = "help" /\ t = 1 ->
         << Op("new", 4, 0), Op("setAffinity", 4, 0), Op("scheduled", 4, 0),
            Op("runAnyTask", 0, 0), Op("runAnyTask", 0, 0) >>
    [] s = "help" /\ t \in {2, 3} ->
         << Op("runAnyTask", 0, 0) >>
    [] OTHER -> << >>

\* The task the run function of task t returns (NULL: none).
Returned(s, t) ==
  IF s \in {"cont", "contAffinity"} /\ t = 1 THEN 2 ELSE NULL

\* The tasks a program constructs and hands to the scheduler.
ProgramTasks(s) ==
  CASE s \in {"chain", "chainRev", "spawn", "spawnChild", "late", "twice"} -> 1 .. 3
    [] s = "fanout" -> 1 .. 10
    [] s \in {"taskset", "contAffinity", "bands"} -> 1 .. 2
    [] s \in {"affinity", "cont", "guard", "stop", "help", "cycle"} -> 1 .. 4

(* --------------------------- the Task object --------------------------- *)

\* Task::Task without the reference of the scheduler.
TaskInit_noRefInc(t) ==
  /\ toStart' = [toStart EXCEPT ![t] = 1]
  /\ toEnd' = [toEnd EXCEPT ![t] = 1]
  /\ priority' = [priority EXCEPT ![t] = NORMAL]
  /\ affinity' = [affinity EXCEPT ![t] = ANY]
  /\ state' = [state EXCEPT ![t] = stNEW]
  /\ created' = created \cup {t}
  /\ UNCHANGED refCount

\* Task::Task without the initial unit of toEnd.
TaskInit_noSelfGuard(t) ==
  /\ toStart' = [toStart EXCEPT ![t] = 1]
  /\ toEnd' = [toEnd EXCEPT ![t] = 0]
  /\ priority' = [priority EXCEPT ![t] = NORMAL]
  /\ affinity' = [affinity EXCEPT ![t] = ANY]
  /\ state' = [state EXCEPT ![t] = stNEW]
  /\ created' = created \cup {t}
  /\ refCount' = [refCount EXCEPT ![t] = @ + 1]

\* Task::Task without the initial unit of toStart.
TaskInit_noSubmissionGuard(t) ==
  /\ toStart' = [toStart EXCEPT ![t] = 0]
  /\ toEnd' = [toEnd EXCEPT ![t] = 1]
  /\ priority' = [priority EXCEPT ![t] = NORMAL]
  /\ affinity' = [affinity EXCEPT ![t] = ANY]
  /\ state' = [state EXCEPT ![t] = stNEW]
  /\ created' = created \cup {t}
  /\ refCount' = [refCount EXCEPT ![t] = @ + 1]

\* Task::Task: the counters start at one, priority NORMAL, affinity 0xffff,
\* state NEW, no successor.
TaskInit(t) ==
  /\ toStart' = [toStart EXCEPT ![t] = 1]
  /\ toEnd' = [toEnd EXCEPT ![t] = 1]
  /\ priority' = [priority EXCEPT ![t] = NORMAL]
  /\ affinity' = [affinity EXCEPT ![t] = ANY]
  /\ state' = [state EXCEPT ![t] = stNEW]
  /\ created' = created \cup {t}
  /\ refCount' = [refCount EXCEPT ![t] = @ + 1]

\* TaskSet::TaskSet with one element too many.
TaskSetInit_offByOne(t, n) ==
  /\ TaskInit(t)
  /\ elemNum' = [elemNum EXCEPT ![t] = n + 1]
  /\ isSet' = isSet \cup {t}

\* TaskSet::TaskSet: a Task with elemNum outstanding elements.
TaskSetInit(t, n) ==
  /\ TaskInit(t)
  /\ elemNum' = [elemNum EXCEPT ![t] = n]
  /\ isSet' = isSet \cup {t}

\* Task::starts with the dependency counter of "other" left alone.
starts_noCount(self, other) ==
  IF other = NULL THEN UNCHANGED <<toStart, toBeStarted>>
  ELSE /\ state[other] = stNEW
       /\ IF toBeStarted[self] # NULL
            THEN UNCHANGED <<toStart, toBeStarted>>
            ELSE /\ toBeStarted' = [toBeStarted EXCEPT ![self] = other]
                 /\ UNCHANGED toStart

\* Task::starts with the two tasks taken the other way round.
starts_swapped(self, other) ==
  IF other = NULL THEN UNCHANGED <<toStart, toBeStarted>>
  ELSE /\ state[other] = stNEW
       /\ IF toBeStarted[other] # NULL
            THEN UNCHANGED <<toStart, toBeStarted>>
            ELSE /\ toStart' = [toStart EXCEPT ![self] = @ + 1]
                 /\ toBeStarted' = [toBeStarted EXCEPT ![other] = self]

\* Task::starts which forgets to record the task to start.
starts_noLink(self, other) ==
  IF other = NULL THEN UNCHANGED <<toStart, toBeStarted>>
  ELSE /\ state[other] = stNEW
       /\ IF toBeStarted[self] # NULL
            THEN UNCHANGED <<toStart, toBeStarted>>
            ELSE /\ toStart' = [toStart EXCEPT ![other] = @ + 1]
                 /\ UNCHANGED toBeStarted

\* Task::starts without the test for a task to start already recorded.
starts_overwrite(self, other) ==
  IF other = NULL THEN UNCHANGED <<toStart, toBeStarted>>
  ELSE /\ state[other] = stNEW
       /\ toStart' = [toStart EXCEPT ![other] = @ + 1]
       /\ toBeStarted' = [toBeStarted EXCEPT ![self] = other]

\* Task::starts
starts(self, other) ==
  IF other = NULL THEN UNCHANGED <<toStart, toBeStarted>>
  ELSE /\ state[other] = stNEW                                \* assert
       /\ IF toBeStarted[self] # NULL
            THEN UNCHANGED <<toStart, toBeStarted>>   \* already a task to start
            ELSE /\ toStart' = [toStart EXCEPT ![other] = @ + 1]
                 /\ toBeStarted' = [toBeStarted EXCEPT ![self] = other]

\* Task::ends with the dependency counter of "other" left alone.
ends_noCount(self, other) ==
  IF other = NULL THEN UNCHANGED <<toEnd, toBeEnded>>
  ELSE /\ state[other] \in {stNEW, stRUNNING}
       /\ IF toBeEnded[self] # NULL
            THEN UNCHANGED <<toEnd, toBeEnded>>
            ELSE /\ toBeEnded' = [toBeEnded EXCEPT ![self] = other]
                 /\ UNCHANGED toEnd

\* Task::ends without the test for a task to end already recorded.
ends_overwrite(self, other) ==
  IF other = NULL THEN UNCHANGED <<toEnd, toBeEnded>>
  ELSE /\ state[other] \in {stNEW, stRUNNING}
       /\ toEnd' = [toEnd EXCEPT ![other] = @ + 1]
       /\ toBeEnded' = [toBeEnded EXCEPT ![self] = other]

\* Task::ends
ends(self, other) ==
  IF other = NULL THEN UNCHANGED <<toEnd, toBeEnded>>
  ELSE /\ state[other] \in {stNEW, stRUNNING}                 \* assert
       /\ IF toBeEnded[self] # NULL
            THEN UNCHANGED <<toEnd, toBeEnded>>       \* already a task to end
            ELSE /\ toEnd' = [toEnd EXCEPT ![other] = @ + 1]
                 /\ toBeEnded' = [toBeEnded EXCEPT ![self] = other]

\* Task::setPriority
setPriority(self, prio) ==
  /\ state[self] = stNEW                                      \* assert
  /\ priority' = [priority EXCEPT ![self] = prio]

\* Task::setAffinity
setAffinity(self, affi) ==
  /\ state[self] = stNEW                                      \* assert
  /\ affinity' = [affinity EXCEPT ![self] = affi]

(* ----------------------------- the queues ------------------------------ *)

\* Insertion which ignores the affinity of the task.
Insert_ownDeque(w, t) ==
  /\ wsQueue' = [wsQueue EXCEPT ![w][priority[t]] = Append(@, t)]
  /\ UNCHANGED afQueue
  /\ parked' = [v \in Workers |-> FALSE]
  /\ wokeFor' = IF affinity[t] \in Workers /\ parked[affinity[t]]
                  THEN wokeFor \cup {t} ELSE wokeFor

\* Thread w makes task t available: a task without affinity goes to the
\* bottom of w's own work stealing queue, a task with an affinity to the
\* FIFO of the thread it is pinned on.  Every insertion wakes the sleepers.
Insert(w, t) ==
  /\ IF affinity[t] \in Workers
       THEN /\ afQueue' = [afQueue EXCEPT ![affinity[t]][priority[t]] = Append(@, t)]
            /\ UNCHANGED wsQueue
       ELSE /\ wsQueue' = [wsQueue EXCEPT ![w][priority[t]] = Append(@, t)]
            /\ UNCHANGED afQueue
  /\ parked' = [v \in Workers |-> FALSE]
  /\ wokeFor' = IF affinity[t] \in Workers /\ parked[affinity[t]]
                  THEN wokeFor \cup {t} ELSE wokeFor

Min(S) == CHOOSE x \in S : \A y \in S : x <= y

AfBands(w) == {p \in Prios : afQueue[w][p] # << >>}
WsBands(w) == {p \in Prios : wsQueue[w][p] # << >>}

Last(q) == q[Len(q)]
Front(q) == SubSeq(q, 1, Len(q) - 1)

(* ---------------------------- the scheduler ---------------------------- *)

\* Task::scheduled, called by thread w: the task is built; it gives up the
\* initial unit of toStart and is made available if no start dependency is
\* left.
scheduled(w, t) ==
  /\ toStart' = [toStart EXCEPT ![t] = @ - 1]
  /\ submitted' = submitted \cup {t}
  /\ IF toStart[t] - 1 = 0
       THEN /\ state' = [state EXCEPT ![t] = stREADY]
            /\ Insert(w, t)
       ELSE UNCHANGED <<state, queueVars>>

\* Assignment of the task `new` to a Ref<Task> that holds `old`: the
\* task assigned gains a reference, the task held before loses one.
RefAssign(old, new) ==
  [t \in Tasks |-> refCount[t] + (IF t = new /\ new # old THEN 1 ELSE 0)
                               - (IF t = old /\ new # old THEN 1 ELSE 0)]

\* TaskingSystemInterruptMain which signals all the threads.
TaskingSystemInterruptMain_all ==
  /\ intAll' = TRUE
  /\ UNCHANGED <<intMain, exited>>

\* TaskingSystemInterruptMain: signal the main thread only to stop.
TaskingSystemInterruptMain ==
  /\ intMain' = TRUE
  /\ UNCHANGED <<intAll, exited>>

\* TaskingSystemInterrupt: signal all the threads to stop.
TaskingSystemInterrupt ==
  /\ intAll' = TRUE
  /\ UNCHANGED <<intMain, exited>>

\* One API call made by thread w.
ExecOp(o, w) ==
  CASE o.op = "new" ->
         /\ TaskInit(o.a)
         /\ UNCHANGED <<isSet, elemNum, toBeStarted, toBeEnded, submitted,
                        queueVars, stopVars>>
    [] o.op = "newset" ->
         /\ TaskSetInit(o.a, o.b)
         /\ UNCHANGED <<toBeStarted, toBeEnded, submitted, queueVars, stopVars>>
    [] o.op = "starts" ->
         /\ starts(o.a, o.b)
         /\ refCount' = RefAssign(toBeStarted[o.a], toBeStarted'[o.a])
         /\ UNCHANGED <<created, isSet, state, toEnd, toBeEnded, priority,
                        affinity, elemNum, submitted, queueVars, stopVars>>
    [] o.op = "ends" ->
         /\ ends(o.a, o.b)
         /\ refCount' = RefAssign(toBeEnded[o.a], toBeEnded'[o.a])
         /\ UNCHANGED <<created, isSet, state, toStart, toBeStarted, priority,
                        affinity, elemNum, submitted, queueVars, stopVars>>
    [] o.op = "setPriority" ->
         /\ setPriority(o.a, o.b)
         /\ UNCHANGED <<created, isSet, state, toStart, toEnd, toBeStarted,
                        toBeEnded, affinity, elemNum, submitted, queueVars,
                        stopVars, refCount>>
    [] o.op = "setAffinity" ->
         /\ setAffinity(o.a, o.b)
         /\ UNCHANGED <<created, isSet, state, toStart, toEnd, toBeStarted,
                        toBeEnded, priority, elemNum, submitted, queueVars,
                        stopVars, refCount>>
    [] o.op = "scheduled" ->
         /\ scheduled(w, o.a)
         /\ UNCHANGED <<created, isSet, toEnd, toBeStarted, toBeEnded,
                        priority, affinity, elemNum, stopVars, refCount>>
    [] o.op = "interruptMain" ->
         /\ TaskingSystemInterruptMain
         /\ UNCHANGED <<taskVars, queueVars, refCount>>
    [] o.op = "interrupt" ->
         /\ TaskingSystemInterrupt
         /\ UNCHANGED <<taskVars, queueVars, refCount>>

\* The main thread (thread 0) runs its script, then enters the tasking system.
Entered == mainpc > Len(Script(scn))

MainStep ==
  /\ ~Entered
  /\ ExecOp(Script(scn)[mainpc], 0)
  /\ mainpc' = mainpc + 1
  /\ UNCHANGED <<scn, frame, work, cont, calls, completed, contOf, ranAny>>

\* A thread of the pool takes part in the scheduling; the main thread does
\* once it has entered.
Active(w) == w # 0 \/ Entered

\* Thread w is in the scheduling loop, between two tasks.
Idle(w) ==
  /\ Active(w)
  /\ ~exited[w]
  /\ ~parked[w]
  /\ frame[w] = << >>
  /\ work[w] = << >>

\* Thread w is signalled to stop.
StopFor(w) == intAll \/ (w = 0 /\ intMain)

Top(w) == Head(frame[w])
InTask(w) == frame[w] # << >> /\ work[w] = << >> /\ Top(w).t \notin isSet
InSet(w) == frame[w] # << >> /\ work[w] = << >> /\ Top(w).t \in isSet

\* The run function thread w executes is at a call of
\* TaskingSystemRunAnyTask.
Helping(w) ==
  /\ InTask(w)
  /\ Top(w).ip <= Len(Body(scn, Top(w).t))
  /\ Body(scn, Top(w).t)[Top(w).ip].op = "runAnyTask"

\* Thread w looks for a task in the queues: at the top of the scheduling
\* loop, unless it is signalled to stop, or in TaskingSystemRunAnyTask.
Seeking(w) == (Idle(w) /\ ~StopFor(w)) \/ Helping(w)

\* A counter operation of the completion protocol that is still to do on
\* task t; rel is the finished task, if any, whose reference the scheduler
\* gives up once the operation is done.
Signal(kind, t) == [k |-> kind, t |-> t, rel |-> NULL]

Frame(t) == [t |-> t, ip |-> IF t \in isSet THEN 0 ELSE 1, idx |-> -1]
Call(w, i) == [w |-> w, i |-> i]

\* The run function that called TaskingSystemRunAnyTask goes on after the
\* call once what the call runs is over.
Resume(fs) == IF fs = << >> THEN fs ELSE [fs EXCEPT ![1].ip = @ + 1]

\* Thread w starts to run task t: the run function of a task is called now,
\* the one of a task set once per element (SetClaim).  Called from
\* TaskingSystemRunAnyTask, the task runs on top of the calling run function
\* and the call returns true.
Begin(w, t) ==
  /\ state' = [state EXCEPT ![t] = stRUNNING]
  /\ frame' = [frame EXCEPT ![w] = <<Frame(t)>> \o Resume(@)]
  /\ calls' = IF t \in isSet THEN calls ELSE [calls EXCEPT ![t] = Append(@, Call(w, -1))]
  /\ ranAny' = IF frame[w] = << >> THEN ranAny
               ELSE [ranAny EXCEPT ![Top(w).t] = Append(@, t)]

\* Step 0 of the multiplexing: the task the user returned runs regardless of
\* anything else in the system.
RunContinuation(w) ==
  /\ Idle(w)
  /\ cont[w] # NULL
  /\ Begin(w, cont[w])
  /\ cont' = [cont EXCEPT ![w] = NULL]
  /\ UNCHANGED <<scn, mainpc, created, isSet, toStart, toEnd, toBeStarted,
                 toBeEnded, priority, affinity, elemNum, wsQueue, afQueue,
                 work, parked, completed, submitted, contOf, wokeFor,
                 stopVars, refCount>>

\* Step 1: the highest priority task of the thread's own affinity queues.
PickAffinity(w) ==
  /\ Seeking(w)
  /\ cont[w] = NULL
  /\ AfBands(w) # {}
  /\ LET p == Min(AfBands(w)) IN
       /\ Begin(w, Head(afQueue[w][p]))
       /\ afQueue' = [afQueue EXCEPT ![w][p] = Tail(@)]
  /\ UNCHANGED <<scn, mainpc, created, isSet, toStart, toEnd, toBeStarted,
                 toBeEnded, priority, affinity, elemNum, wsQueue,
                 work, cont, parked, completed, submitted, contOf, wokeFor,
                 stopVars, refCount>>

\* Step 2 taken without looking at the task the user returned.
PickOwn_beforeContinuation(w) ==
  /\ Seeking(w)
  /\ AfBands(w) = {}
  /\ WsBands(w) # {}
  /\ LET p == Min(WsBands(w)) IN
       /\ Begin(w, Last(wsQueue[w][p]))
       /\ wsQueue' = [wsQueue EXCEPT ![w][p] = Front(@)]
  /\ UNCHANGED <<scn, mainpc, created, isSet, toStart, toEnd, toBeStarted,
                 toBeEnded, priority, affinity, elemNum, afQueue,
                 work, cont, parked, completed, submitted, contOf, wokeFor,
                 stopVars, refCount>>

\* Step 2 taken without looking at the affinity queues first.
PickOwn_beforeAffinity(w) ==
  /\ Seeking(w)
  /\ cont[w] = NULL
  /\ WsBands(w) # {}
  /\ LET p == Min(WsBands(w)) IN
       /\ Begin(w, Last(wsQueue[w][p]))
       /\ wsQueue' = [wsQueue EXCEPT ![w][p] = Front(@)]
  /\ UNCHANGED <<scn, mainpc, created, isSet, toStart, toEnd, toBeStarted,
                 toBeEnded, priority, affinity, elemNum, afQueue,
                 work, cont, parked, completed, submitted, contOf, wokeFor,
                 stopVars, refCount>>

\* Step 2: the highest priority task of the thread's own work stealing
\* queues, in depth first order (the task pushed last).
PickOwn(w) ==
  /\ Seeking(w)
  /\ cont[w] = NULL
  /\ AfBands(w) = {}
  /\ WsBands(w) # {}
  /\ LET p == Min(WsBands(w)) IN
       /\ Begin(w, Last(wsQueue[w][p]))
       /\ wsQueue' = [wsQueue EXCEPT ![w][p] = Front(@)]
  /\ UNCHANGED <<scn, mainpc, created, isSet, toStart, toEnd, toBeStarted,
                 toBeEnded, priority, affinity, elemNum, afQueue,
                 work, cont, parked, completed, submitted, contOf, wokeFor,
                 stopVars, refCount>>

\* Step 3 which takes the task the victim pushed last.
Steal_newest(w, v) ==
  /\ Seeking(w)
  /\ cont[w] = NULL
  /\ AfBands(w) = {}
  /\ WsBands(w) = {}
  /\ v # w
  /\ WsBands(v) # {}
  /\ LET p == Min(WsBands(v)) IN
       /\ Begin(w, Last(wsQueue[v][p]))
       /\ wsQueue' = [wsQueue EXCEPT ![v][p] = Front(@)]
  /\ UNCHANGED <<scn, mainpc, created, isSet, toStart, toEnd, toBeStarted,
                 toBeEnded, priority, affinity, elemNum, afQueue,
                 work, cont, parked, completed, submitted, contOf, wokeFor,
                 stopVars, refCount>>

\* Step 3: steal from the work stealing queues of another thread v, in
\* breadth first order (the task pushed first), highest priority first.
Steal(w, v) ==
  /\ Seeking(w)
  /\ cont[w] = NULL
  /\ AfBands(w) = {}
  /\ WsBands(w) = {}
  /\ v # w
  /\ WsBands(v) # {}
  /\ LET p == Min(WsBands(v)) IN
       /\ Begin(w, Head(wsQueue[v][p]))
       /\ wsQueue' = [wsQueue EXCEPT ![v][p] = Tail(@)]
  /\ UNCHANGED <<scn, mainpc, created, isSet, toStart, toEnd, toBeStarted,
                 toBeEnded, priority, affinity, elemNum, afQueue,
                 work, cont, parked, completed, submitted, contOf, wokeFor,
                 stopVars, refCount>>

\* TaskingSystemRunAnyTask which gives up without looking at the queues.
RunNothing_noLook(w, v) ==
  /\ Helping(w)
  /\ v # w
  /\ frame' = [frame EXCEPT ![w] = Resume(@)]
  /\ ranAny' = [ranAny EXCEPT ![Top(w).t] = Append(@, NULL)]
  /\ UNCHANGED <<scn, mainpc, taskVars, queueVars, work, cont, calls,
                 completed, contOf, stopVars, refCount>>

\* TaskingSystemRunAnyTask finds nothing in the thread's own queues and
\* nothing to steal from thread v, the random other thread it tries: the
\* call returns false.
RunNothing(w, v) ==
  /\ Helping(w)
  /\ AfBands(w) = {}
  /\ WsBands(w) = {}
  /\ v # w
  /\ WsBands(v) = {}
  /\ frame' = [frame EXCEPT ![w] = Resume(@)]
  /\ ranAny' = [ranAny EXCEPT ![Top(w).t] = Append(@, NULL)]
  /\ UNCHANGED <<scn, mainpc, taskVars, queueVars, work, cont, calls,
                 completed, contOf, stopVars, refCount>>

\* Nothing to run and nothing to steal: the thread goes to sleep until the
\* next insertion.
Park(w) ==
  /\ Idle(w)
  /\ ~StopFor(w)
  /\ cont[w] = NULL
  /\ AfBands(w) = {}
  /\ \A v \in Workers : WsBands(v) = {}
  /\ parked' = [parked EXCEPT ![w] = TRUE]
  /\ UNCHANGED <<scn, mainpc, taskVars, wsQueue, afQueue, frame, work, cont,
                 calls, completed, contOf, wokeFor, stopVars, ranAny, refCount>>

\* The thread, between two tasks, sees that it is signalled to stop: it
\* leaves the scheduling loop (the main thread returns from
\* TaskingSystemEnter); a sleeping thread is woken up for that.
Leave(w) ==
  /\ Active(w)
  /\ ~exited[w]
  /\ StopFor(w)
  /\ frame[w] = << >>
  /\ work[w] = << >>
  /\ cont[w] = NULL
  /\ exited' = [exited EXCEPT ![w] = TRUE]
  /\ parked' = [parked EXCEPT ![w] = FALSE]
  /\ UNCHANGED <<scn, mainpc, taskVars, wsQueue, afQueue, frame, work, cont,
                 calls, completed, contOf, wokeFor, intMain, intAll, ranAny,
                 refCount>>

\* The run function of a task makes its next API call.
RunStep(w) ==
  /\ InTask(w)
  /\ Top(w).ip <= Len(Body(scn, Top(w).t))
  /\ ~Helping(w)
  /\ ExecOp(Body(scn, Top(w).t)[Top(w).ip], w)
  /\ frame' = [frame EXCEPT ![w][1].ip = @ + 1]
  /\ UNCHANGED <<scn, mainpc, work, cont, calls, completed, contOf, ranAny>>

\* The run function returns.  The task it returns, if any, by-passes the
\* scheduler: it is handed over without going through any queue.
Return(w) ==
  /\ InTask(w)
  /\ Top(w).ip > Len(Body(scn, Top(w).t))
  /\ LET t == Top(w).t
         r == Returned(scn, t)
     IN /\ frame' = [frame EXCEPT ![w] = Tail(@)]
        /\ completed' = [completed EXCEPT ![t] = @ + 1]
        /\ work' = [work EXCEPT ![w] = <<Signal("end", t)>>]
        /\ IF r = NULL
             THEN UNCHANGED <<cont, contOf, toStart, state, submitted>>
             ELSE /\ state[r] = stNEW                          \* assert
                  /\ toStart[r] = 1
                  /\ cont' = [cont EXCEPT ![w] = r]
                  /\ contOf' = [contOf EXCEPT ![r] = t]
                  /\ toStart' = [toStart EXCEPT ![r] = @ - 1]
                  /\ state' = [state EXCEPT ![r] = stREADY]
                  /\ submitted' = submitted \cup {r}
  /\ UNCHANGED <<scn, mainpc, created, isSet, toEnd, toBeStarted, toBeEnded,
                 priority, affinity, elemNum, queueVars, calls, stopVars,
                 ranAny, refCount>>

\* TaskSet::run, first step: with more than one element outstanding the set
\* is put back in the queues, so that other threads can take elements too;
\* it then cannot end before this thread is done with it.
SetSplit(w) ==
  /\ InSet(w)
  /\ Top(w).ip = 0
  /\ LET t == Top(w).t IN
       IF elemNum[t] > 1
         THEN /\ toEnd' = [toEnd EXCEPT ![t] = @ + 1]
              /\ Insert(w, t)
         ELSE UNCHANGED <<toEnd, queueVars>>
  /\ frame' = [frame EXCEPT ![w][1].ip = 1]
  /\ UNCHANGED <<scn, mainpc, created, isSet, state, toStart, toBeStarted,
                 toBeEnded, priority, affinity, elemNum, work, cont, calls,
                 completed, submitted, contOf, stopVars, ranAny, refCount>>

\* TaskSet::run, the loop: take the next outstanding element, if any, and
\* call the user's run function on it; leave when none is left.
SetClaim(w) ==
  /\ InSet(w)
  /\ Top(w).ip = 1
  /\ Top(w).idx = -1
  /\ LET t == Top(w).t IN
       IF elemNum[t] > 0
         THEN /\ elemNum' = [elemNum EXCEPT ![t] = @ - 1]
              /\ frame' = [frame EXCEPT ![w][1].idx = elemNum[t] - 1]
              /\ calls' = [calls EXCEPT ![t] = Append(@, Call(w, elemNum[t] - 1))]
              /\ UNCHANGED work
         ELSE /\ frame' = [frame EXCEPT ![w] = Tail(@)]
              /\ work' = [work EXCEPT ![w] = <<Signal("end", t)>>]
              /\ UNCHANGED <<elemNum, calls>>
  /\ UNCHANGED <<scn, mainpc, created, isSet, state, toStart, toEnd,
                 toBeStarted, toBeEnded, priority, affinity, queueVars, cont,
                 completed, submitted, contOf, stopVars, ranAny, refCount>>

\* The user's run function on one element returns.
SetElemDone(w) ==
  /\ InSet(w)
  /\ Top(w).idx >= 0
  /\ completed' = [completed EXCEPT ![Top(w).t] = @ + 1]
  /\ frame' = [frame EXCEPT ![w][1].idx = -1]
  /\ UNCHANGED <<scn, mainpc, taskVars, queueVars, work, cont, calls, contOf,
                 stopVars, ranAny, refCount>>

\* The end of task t which forgets the task to end.
Successors_noEnd(t) ==
  IF toBeStarted[t] # NULL THEN <<Signal("start", toBeStarted[t])>> ELSE << >>

\* What the end of task t triggers: first the task it ends, then the task
\* it starts.
Successors(t) ==
  (IF toBeEnded[t] # NULL THEN <<Signal("end", toBeEnded[t])>> ELSE << >>)
    \o (IF toBeStarted[t] # NULL THEN <<Signal("start", toBeStarted[t])>> ELSE << >>)

\* RefCount::refDec on task t: at zero the task is deleted, and the two
\* Ref<Task> it holds give up their reference.
RECURSIVE Release(_, _)
Release(rc, t) ==
  LET rc1 == [rc EXCEPT ![t] = @ - 1]
      rc2 == IF toBeStarted[t] # NULL THEN Release(rc1, toBeStarted[t]) ELSE rc1
  IN IF rc1[t] # 0 THEN rc1
     ELSE IF toBeEnded[t] # NULL THEN Release(rc2, toBeEnded[t]) ELSE rc2

\* The operations the end of task t triggers; the reference of the
\* scheduler on t is given up after the last of them.
Closing(sigs, t) ==
  [i \in 1 .. Len(sigs) |->
     IF i = Len(sigs) THEN [sigs[i] EXCEPT !.rel = t] ELSE sigs[i]]

\* The completion protocol, one atomic counter operation at a time.
\* "end": toEnd of the task is decremented; at zero the task is done, its
\* successors are signalled and then the reference the scheduler holds on
\* the task since Task::Task is given up.  "start": toStart of the task is
\* decremented; at zero the task is ready and made available by this thread.
Finish(w) ==
  /\ work[w] # << >>
  /\ LET k == Head(work[w]).k
         t == Head(work[w]).t
         rc == IF Head(work[w]).rel # NULL
                 THEN Release(refCount, Head(work[w]).rel) ELSE refCount
     IN IF k = "end"
          THEN /\ toEnd' = [toEnd EXCEPT ![t] = @ - 1]
               /\ IF toEnd[t] - 1 = 0
                    THEN /\ state' = [state EXCEPT ![t] = stDONE]
                         /\ work' = [work EXCEPT ![w] =
                                       Closing(Successors(t), t) \o Tail(@)]
                         /\ refCount' = IF Successors(t) = << >>
                                          THEN Release(rc, t) ELSE rc
                    ELSE /\ work' = [work EXCEPT ![w] = Tail(@)]
                         /\ refCount' = rc
                         /\ UNCHANGED state
               /\ UNCHANGED <<toStart, queueVars>>
          ELSE /\ toStart' = [toStart EXCEPT ![t] = @ - 1]
               /\ work' = [work EXCEPT ![w] = Tail(@)]
               /\ refCount' = rc
               /\ IF toStart[t] - 1 = 0
                    THEN /\ state' = [state EXCEPT ![t] = stREADY]
                         /\ Insert(w, t)
                    ELSE UNCHANGED <<state, queueVars>>
               /\ UNCHANGED toEnd
  /\ UNCHANGED <<scn, mainpc, created, isSet, toBeStarted, toBeEnded,
                 priority, affinity, elemNum, frame, cont, calls, completed,
                 submitted, contOf, stopVars, ranAny>>

(* -------------------------- the specification -------------------------- *)

\* The state after TaskingSystemStart, before the program s starts.
Start(s) ==
  /\ scn = s
  /\ mainpc = 1
  /\ created = {}
  /\ isSet = {}
  /\ state = [t \in Tasks |-> stNEW]
  /\ toStart = [t \in Tasks |-> 1]
  /\ toEnd = [t \in Tasks |-> 1]
  /\ toBeStarted = [t \in Tasks |-> NULL]
  /\ toBeEnded = [t \in Tasks |-> NULL]
  /\ priority = [t \in Tasks |-> NORMAL]
  /\ affinity = [t \in Tasks |-> ANY]
  /\ elemNum = [t \in Tasks |-> 0]
  /\ wsQueue = [w \in Workers |-> [p \in Prios |-> << >>]]
  /\ afQueue = [w \in Workers |-> [p \in Prios |-> << >>]]
  /\ frame = [w \in Workers |-> << >>]
  /\ work = [w \in Workers |-> << >>]
  /\ cont = [w \in Workers |-> NULL]
  /\ parked = [w \in Workers |-> FALSE]
  /\ calls = [t \in Tasks |-> << >>]
  /\ completed = [t \in Tasks |-> 0]
  /\ submitted = {}
  /\ contOf = [t \in Tasks |-> NULL]
  /\ wokeFor = {}
  /\ intMain = FALSE
  /\ intAll = FALSE
  /\ exited = [w \in Workers |-> FALSE]
  /\ ranAny = [t \in Tasks |-> << >>]
  /\ refCount = [t \in Tasks |-> 0]

Init == \E s \in Scenarios : Start(s)

Next ==
  \/ MainStep
  \/ \E w \in Workers : RunContinuation(w)
  \/ \E w \in Workers : PickAffinity(w)
  \/ \E w \in Workers : PickOwn(w)
  \/ \E w, v \in Workers : Steal(w, v)
  \/ \E w, v \in Workers : RunNothing(w, v)
  \/ \E w \in Workers : Park(w)
  \/ \E w \in Workers : Leave(w)
  \/ \E w \in Workers : RunStep(w)
  \/ \E w \in Workers : Return(w)
  \/ \E w \in Workers : SetSplit(w)
  \/ \E w \in Workers : SetClaim(w)
  \/ \E w \in Workers : SetElemDone(w)
  \/ \E w \in Workers : Finish(w)

Spec == Init /\ [][Next]_vars

\* The steps of thread w in the scheduling loop.
WorkerStep(w) ==
  \/ RunContinuation(w)
  \/ PickAffinity(w)
  \/ PickOwn(w)
  \/ \E v \in Workers : Steal(w, v)
  \/ \E v \in Workers : RunNothing(w, v)
  \/ Park(w)
  \/ Leave(w)
  \/ RunStep(w)
  \/ Return(w)
  \/ SetSplit(w)
  \/ SetClaim(w)
  \/ SetElemDone(w)
  \/ Finish(w)

\* Every thread is an OS thread that keeps being scheduled: the main thread
\* goes on with its script, a thread of the pool with its loop.
FairSpec ==
  /\ \E s \in Scenarios \ {"fanout"} : Start(s)
  /\ [][Next]_vars
  /\ WF_vars(MainStep)
  /\ \A w \in Workers : WF_vars(WorkerStep(w))

(* ------------------------------ properties ----------------------------- *)

\* The task was picked up by a thread: its run function has been called.
Begun(t) == state[t] \in {stRUNNING, stDONE}
Done(t) == state[t] = stDONE

\* Nothing is left to do: the main thread has entered, no thread runs a
\* task or signals a completion, and every queue is empty.
Quiescent ==
  /\ Entered
  /\ \A w \in Workers :
       /\ frame[w] = << >>
       /\ work[w] = << >>
       /\ cont[w] = NULL
       /\ AfBands(w) = {}
       /\ WsBands(w) = {}

Chain == scn \in {"chain", "chainRev"}

C2_StartGuard ==
  /\ \A t \in created : toStart[t] > 0 => state[t] = stNEW
  /\ \A a \in created :
       toBeStarted[a] # NULL =>
         (state[toBeStarted[a]] # stNEW \/ calls[toBeStarted[a]] # << >> => Done(a))

\* A task that had to wait for another one is running, its predecessor
\* having been run by another thread.
C2_Witness ==
  \E a \in created :
    /\ toBeStarted[a] # NULL
    /\ toBeStarted[a] \in submitted
    /\ state[toBeStarted[a]] = stRUNNING
    /\ calls[a][1].w # calls[toBeStarted[a]][1].w

Interrupted == intMain \/ intAll

\* The tasks that recorded t as the task to start.
StartPreds(t) == {s \in created : toBeStarted[s] = t}

\* The tasks that recorded t as the task to end.
EndPreds(t) == {s \in created : toBeEnded[s] = t}

\* The tasks that wait for task t: the task it starts and the task it ends.
Edges(t) == {toBeStarted[t], toBeEnded[t]} \ {NULL}

\* The tasks reached from the tasks of S along the dependencies.
RECURSIVE Reach(_)
Reach(S) ==
  LET N == S \cup UNION {Edges(x) : x \in S}
  IN IF N = S THEN S ELSE Reach(N)

\* Task t waits, directly or not, for itself.
OnCycle(t) == t \in Reach(Edges(t))
Cyclic == \E t \in created : OnCycle(t)

\* The program has built a graph in which no task waits for itself and
\* no submitted task waits for a task that is not submitted.
WellFormed ==
  /\ ~Cyclic
  /\ \A t \in submitted : StartPreds(t) \cup EndPreds(t) \subseteq submitted

AllSlots ==
  UNION {({"ws"} \X {w} \X {p} \X (1 .. Len(wsQueue[w][p])))
           \cup ({"af"} \X {w} \X {p} \X (1 .. Len(afQueue[w][p]))) :
         <<w, p>> \in Workers \X Prios}
At(s) == IF s[1] = "ws" THEN wsQueue[s[2]][s[3]][s[4]] ELSE afQueue[s[2]][s[3]][s[4]]

\* The places where task t waits or runs: the slots of the queues, the
\* threads running it and the threads holding it as returned task.
Slots(t) == {s \in AllSlots : At(s) = t}
Runners(t) == {w \in Workers : \E i \in 1 .. Len(frame[w]) : frame[w][i].t = t}
Holders(t) == {w \in Workers : cont[w] = t}

C5_Places ==
  LET plain == created \ isSet
      waiting == {s \in AllSlots : At(s) \in plain}
      held == {w \in Workers : cont[w] # NULL}
      running == {w \in Workers : frame[w] # << >> /\ Head(frame[w]).t \in plain}
  IN /\ \A t \in plain :
          /\ Len(calls[t]) <= 1
          /\ Begun(t) <=> Len(calls[t]) = 1
          /\ Done(t) => completed[t] = 1
     \* a task waits in a queue or in the hand of a thread iff it is READY,
     \* and then in one place only
     /\ \A s \in waiting : state[At(s)] = stREADY
     /\ \A s1, s2 \in waiting : At(s1) = At(s2) => s1 = s2
     /\ \A w \in held : state[cont[w]] = stREADY /\ Slots(cont[w]) = {}
     /\ \A w1, w2 \in held : cont[w1] = cont[w2] => w1 = w2
     /\ Cardinality({t \in plain : state[t] = stREADY})
          = Cardinality(waiting) + Cardinality(held)
     \* a task is run by one thread at a time, and is RUNNING then
     /\ \A w \in running : state[Head(frame[w]).t] = stRUNNING
     /\ \A w1, w2 \in running : Head(frame[w1]).t = Head(frame[w2]).t => w1 = w2

C5_Step ==
  \A t \in Tasks \ isSet :
    state'[t] # state[t] =>
      /\ state'[t] = state[t] + 1
      /\ t \in submitted'
      /\ state[t] = stNEW => toStart[t] = 1 /\ toStart'[t] = 0
      /\ state[t] = stRUNNING => toEnd[t] = 1 /\ toEnd'[t] = 0

Indices(t) == {calls[t][i].i : i \in 1 .. Len(calls[t])}

C6_Set ==
  scn = "taskset" =>
    /\ Len(calls[1]) <= SetSize
    /\ Cardinality(Indices(1)) = Len(calls[1])
    /\ Indices(1) \subseteq 0 .. (SetSize - 1)
    /\ completed[1] <= Len(calls[1])
    /\ Done(1) => completed[1] = SetSize /\ Indices(1) = 0 .. (SetSize - 1)
    /\ state[2] # stNEW => Done(1) /\ completed[1] = SetSize
    /\ Quiescent => Done(1) /\ Done(2)

\* C6: the task set T (task 1) of SetSize elements has its run function
\* called once per index of 0 .. SetSize-1, whichever threads take the
\* elements; T is DONE, and the task F (task 2) it starts leaves NEW, only
\* when all the calls have returned; once DONE, T stays DONE.
C6_EachIndexOnce ==
  []C6_Set /\ [][scn = "taskset" /\ Done(1) => Done(1)' /\ toEnd'[1] = 0]_vars

\* The set is DONE and its elements were run by more than one thread.
C6_Witness ==
  /\ scn = "taskset"
  /\ Done(1)
  /\ \E i, j \in 1 .. Len(calls[1]) : calls[1][i].w # calls[1][j].w

\* C7: every call of the run function of a task pinned on a thread is
\* made by this thread.
C7_RunsOnItsThread ==
  \A t \in created :
    affinity[t] \in Workers =>
      \A i \in 1 .. Len(calls[t]) : calls[t][i].w = affinity[t]

InQueue(t) == Slots(t) # {}

Leaves == 2 .. 9

NonNegative == \A t \in Tasks : toStart[t] >= 0 /\ toEnd[t] >= 0

\* C10 as stated: the counters are never negative and, once the task is
\* submitted, never increase.
C10_NeverIncrease ==
  /\ []NonNegative
  /\ [][\A t \in submitted : toStart'[t] <= toStart[t] /\ toEnd'[t] <= toEnd[t]]_vars

\* C10 amended: the counters are never negative; once the task is
\* submitted every change of a counter is by one, and an increase happens
\* only when a dependency on the task is declared: toStart when a task
\* records it as task to start (the task being NEW), toEnd when a task
\* records it as task to end (the task being NEW or RUNNING), or when a
\* running task set is put back in the queues.
C10_IncreaseOnlyByNewEdge ==
  /\ []NonNegative
  /\ [][\A t \in submitted :
          /\ toStart'[t] # toStart[t] =>
               \/ toStart'[t] = toStart[t] - 1
               \/ /\ toStart'[t] = toStart[t] + 1
                  /\ state[t] = stNEW
                  /\ \E s \in created : toBeStarted[s] = NULL /\ toBeStarted'[s] = t
          /\ toEnd'[t] # toEnd[t] =>
               \/ toEnd'[t] = toEnd[t] - 1
               \/ /\ toEnd'[t] = toEnd[t] + 1
                  /\ state[t] \in {stNEW, stRUNNING}
                  /\ \/ \E s \in created : toBeEnded[s] = NULL /\ toBeEnded'[s] = t
                     \/ t \in isSet /\ state[t] = stRUNNING /\ InQueue(t)']_vars

\* T (task 2) was submitted with one start dependency left, and the body
\* of P declared a second one on it: toStart of T went from 1 to 2.
C10_Witness ==
  /\ scn = "late"
  /\ 2 \in submitted
  /\ toBeStarted[3] = 2
  /\ toStart[2] = 2

C11_Unsubmitted ==
  \A t \in created \ submitted :
    /\ state[t] = stNEW
    /\ toStart[t] >= 1
    /\ ~InQueue(t)
    /\ Runners(t) = {} /\ Holders(t) = {}
    /\ calls[t] = << >>

C11_Submit ==
  (submitted' # submitted \/ wsQueue' # wsQueue \/ afQueue' # afQueue) =>
    LET before == {At(s) : s \in AllSlots}
        after == {At(s) : s \in AllSlots}'
    IN \A t \in created \ isSet :
         \* Task::scheduled is called on t
         /\ (t \notin submitted /\ t \in submitted' /\ contOf'[t] = NULL) =>
              /\ toStart'[t] = toStart[t] - 1
              /\ t \in after <=> toStart'[t] = 0
              /\ state'[t] = (IF toStart'[t] = 0 THEN stREADY ELSE stNEW)
         \* t, submitted earlier, enters a queue
         /\ (t \in submitted /\ t \notin before /\ t \in after) =>
              /\ toStart[t] = 1 /\ toStart'[t] = 0
              /\ state[t] = stNEW /\ state'[t] = stREADY
              /\ StartPreds(t) # {}
              /\ \A s \in StartPreds(t) : Done(s)

NoCall == Op("none", 0, 0)
NextCall(w) ==
  IF w = 0 /\ ~Entered THEN Script(scn)[mainpc]
  ELSE IF InTask(w) /\ Top(w).ip <= Len(Body(scn, Top(w).t))
         THEN Body(scn, Top(w).t)[Top(w).ip]
         ELSE NoCall

\* Thread w makes this call (and nothing else) in the step.
Calls(w) ==
  IF w = 0 /\ ~Entered THEN mainpc' = mainpc + 1
  ELSE /\ frame[w] # << >>
       /\ frame'[w] = [frame[w] EXCEPT ![1].ip = @ + 1]

\* Thread w is asked to stop: by the signal for all the threads, or, the
\* main thread, by the signal for the main thread.
Signalled(w) == intAll \/ (w = 0 /\ intMain)

\* The threads signalled to stop leave only between two tasks and without
\* touching anything; a thread of the pool is never stopped by the signal
\* for the main thread.
C12_Left ==
  \A w \in Workers :
    exited[w] => /\ Signalled(w)
                 /\ frame[w] = << >> /\ work[w] = << >> /\ cont[w] = NULL

C12_Step ==
  /\ \A w \in Workers :
       \* leaving changes nothing but the thread
       /\ exited'[w] # exited[w] =>
            /\ exited'[w] /\ Signalled(w)
            /\ frame[w] = << >> /\ work[w] = << >>
            /\ UNCHANGED <<taskVars, wsQueue, afQueue, frame, work, cont,
                           calls, completed, refCount>>
       \* a thread signalled to stop takes no task from the queues, a
       \* thread that left does nothing at all
       /\ (Signalled(w) /\ frame[w] = << >> /\ frame'[w] # << >>) =>
            /\ cont[w] # NULL /\ UNCHANGED <<wsQueue, afQueue>>
       /\ exited[w] =>
            exited'[w] /\ UNCHANGED <<frame[w], work[w], cont[w]>>
       \* the signal alone stops nothing: what runs goes on
       /\ (Calls(w) /\ NextCall(w).op \in {"interruptMain", "interrupt"}) =>
            /\ UNCHANGED <<taskVars, queueVars, work, cont, calls, completed,
                           exited, refCount>>
            /\ intMain' = (intMain \/ NextCall(w).op = "interruptMain")
            /\ intAll' = (intAll \/ NextCall(w).op = "interrupt")
       \* a second signal changes nothing
       /\ (Calls(w) /\ NextCall(w).op = "interruptMain" /\ intMain) =>
            UNCHANGED stopVars
       /\ (Calls(w) /\ NextCall(w).op = "interrupt" /\ intAll) =>
            UNCHANGED stopVars
  \* once all the threads have left, the tasks that wait stay where they are
  /\ (\A w \in Workers : exited[w]) =>
       UNCHANGED <<taskVars, wsQueue, afQueue, calls, completed>>
  /\ intMain => intMain'
  /\ intAll => intAll'

\* C12: TaskingSystemInterruptMain makes the main thread, and no other
\* thread, leave the scheduling loop; TaskingSystemInterrupt makes all the
\* threads leave it.  A thread leaves between two tasks only: the run
\* function it executes returns and the completion protocol is applied
\* first; it takes no further task from the queues, and the tasks that
\* wait stay in their queues.  A second signal changes nothing.  Under fair
\* scheduling every thread signalled to stop does leave, with nothing
\* left half done.
C12_Interrupts ==
  /\ []C12_Left
  /\ [][C12_Step]_vars
  /\ <>[](/\ intMain => exited[0]
          /\ intAll => \A w \in Workers : exited[w]
          /\ \A w \in Workers : frame[w] = << >> /\ work[w] = << >>
          /\ \A t \in created \ isSet : calls[t] # << >> => completed[t] = 1)

\* All the threads have left after the two signals, the main thread
\* before the signal for all; B, which gave that signal, was run by another
\* thread after the main thread was signalled; a task is left READY in a
\* queue.
C12_Witness ==
  /\ scn = "stop"
  /\ \A w \in Workers : exited[w]
  /\ Done(1) /\ Done(2) /\ calls[2][1].w # 0
  /\ \E t \in created : state[t] = stREADY /\ InQueue(t)

\* The task TaskingSystemRunAnyTask called by thread w is to run: from
\* the thread's own affinity queues, else from its own work stealing
\* queues, else stolen from another thread.
Candidates(w) ==
  IF AfBands(w) # {} THEN {afQueue[w][Min(AfBands(w))][1]}
  ELSE IF WsBands(w) # {}
         THEN {wsQueue[w][Min(WsBands(w))][Len(wsQueue[w][Min(WsBands(w))])]}
         ELSE {wsQueue[v][Min(WsBands(v))][1] :
                 v \in {u \in Workers \ {w} : WsBands(u) # {}}}

\* The calls of TaskingSystemRunAnyTask in the first n calls of task t.
RECURSIVE RunAnyCalls(_, _)
RunAnyCalls(t, n) ==
  IF n = 0 THEN 0
  ELSE RunAnyCalls(t, n - 1)
         + (IF Body(scn, t)[n].op = "runAnyTask" THEN 1 ELSE 0)

C13_Nested ==
  /\ \A w \in Workers :
       \A i \in 1 .. Len(frame[w]) :
         LET f == frame[w][i] IN
           \* the calling tasks stay RUNNING, out of the queues, and none
           \* runs twice on the stack of the thread
           /\ state[f.t] = stRUNNING
           /\ f.t \notin isSet => ~InQueue(f.t) /\ calls[f.t][1].w = w
           /\ \A j \in 1 .. Len(frame[w]) : frame[w][j].t = f.t => j = i
           \* a task under another one is in a call that returns true
           /\ i > 1 => /\ Body(scn, f.t)[f.ip - 1].op = "runAnyTask"
                        /\ ranAny[f.t][Len(ranAny[f.t])] = frame[w][i - 1].t
           \* one result per call made; once a call is over, the task it
           \* ran, if any, was run by this thread and is through
           /\ f.t \notin isSet =>
                /\ Len(ranAny[f.t]) = RunAnyCalls(f.t, f.ip - 1)
                /\ (i = 1 /\ work[w] = << >>) =>
                     \A k \in 1 .. Len(ranAny[f.t]) :
                       LET t == ranAny[f.t][k] IN
                         t # NULL =>
                           /\ t # f.t
                           /\ \E c \in 1 .. Len(calls[t]) : calls[t][c].w = w
                           /\ t \notin isSet => completed[t] = 1
  /\ \A t \in created \ isSet :
       completed[t] = 1 => Len(ranAny[t]) = RunAnyCalls(t, Len(Body(scn, t)))

C13_Step ==
  \A w \in Workers :
    (Helping(w) /\ frame'[w] # frame[w]) =>
      LET c == Top(w).t IN
        \* the call returns false: the queues of the thread are empty and
        \* nothing was run
        \/ /\ frame'[w] = Resume(frame[w])
           /\ ranAny'[c] = Append(ranAny[c], NULL)
           /\ AfBands(w) = {} /\ WsBands(w) = {}
           /\ UNCHANGED <<taskVars, queueVars, calls, completed, work, cont>>
        \* the call returns true: one task left the queues and runs on top
        \* of the calling task
        \/ \E t \in Candidates(w) \ {c} :
             /\ frame'[w] = <<Frame(t)>> \o Resume(frame[w])
             /\ ranAny'[c] = Append(ranAny[c], t)
             /\ state[t] = stREADY /\ state'[t] = stRUNNING
             /\ state'[c] = stRUNNING
             /\ Cardinality(AllSlots') = Cardinality(AllSlots) - 1
             /\ Cardinality(Slots(t)') = Cardinality(Slots(t)) - 1
             /\ cont'[w] = cont[w] /\ cont[w] = NULL

\* C13: a call of TaskingSystemRunAnyTask from a run function takes at
\* most one task: the first of the thread's own affinity queues, else the
\* last of its own work stealing queues, else one stolen from another
\* thread; it returns true iff it took one, whose run function is then
\* called by this thread and has returned, its completion signalled, when
\* the call returns; it returns false only when the queues of the thread
\* are empty.  The calling task is never the task taken, is in no queue
\* and stays RUNNING; the same holds when the task taken itself calls
\* TaskingSystemRunAnyTask.
C13_RunAnyTask == []C13_Nested /\ [][C13_Step]_vars

\* A (task 1) ran the pinned task D through its first call and C through
\* its second call, C ran B through its own call (three run functions on
\* the stack of one thread), and the call of B found nothing.
C13_Witness ==
  /\ scn = "help"
  /\ Quiescent
  /\ ranAny[1] = <<4, 3>>
  /\ ranAny[3] = <<2>>
  /\ ranAny[2] = <<NULL>>
  /\ \A t \in 1 .. 4 : Done(t) /\ calls[t][1].w = 0

(* C14 *)

\* Thread w starts a task in this step while its own queues hold one and
\* no returned task is to run: it takes the task from its own queues.
PicksOwn(w) ==
  /\ Len(frame'[w]) = Len(frame[w]) + 1
  /\ cont[w] = NULL
  /\ AfBands(w) \cup WsBands(w) # {}

\* C14 as stated: the thread takes its task in the highest priority band
\* in which it holds one, from the affinity FIFO of this band if it is not
\* empty, else from the work stealing queue of this band; a LOW task in its
\* affinity FIFO comes after a CRITICAL task in its work stealing queue.
C14_BandsFirst ==
  [][\A w \in Workers :
       PicksOwn(w) =>
         LET p == Min(AfBands(w) \cup WsBands(w)) IN
           frame'[w][1].t = IF afQueue[w][p] # << >>
                              THEN Head(afQueue[w][p])
                              ELSE Last(wsQueue[w][p])]_vars

\* In the program "bands", L (task 1) runs on thread 0, and thread 0 runs
\* K (task 2) only after L.
C14_Bands ==
  scn = "bands" =>
    /\ (calls[2] # << >> /\ calls[2][1].w = 0) => Done(1)
    /\ calls[1] # << >> => calls[1][1].w = 0

\* C14 amended: the thread takes its task from its affinity FIFOs as long
\* as one of them holds a task, highest priority band first, and from its
\* work stealing queues, highest priority band first, only when all its
\* affinity FIFOs are empty; a thread that holds a CRITICAL task in its work
\* stealing queue and a LOW task in its affinity FIFO runs the LOW task
\* first.
C14_AffinityFirst ==
  /\ []C14_Bands
  /\ [][\A w \in Workers :
          PicksOwn(w) =>
            frame'[w][1].t = IF AfBands(w) # {}
                               THEN Head(afQueue[w][Min(AfBands(w))])
                               ELSE Last(wsQueue[w][Min(WsBands(w))])]_vars

\* Thread 0 runs the LOW task L of its affinity FIFO while the CRITICAL
\* task K waits in its work stealing queue.
C14_Witness ==
  /\ scn = "bands"
  /\ frame[0] # << >> /\ Top(0).t = 1
  /\ priority[1] = LOW /\ priority[2] = CRITICAL
  /\ wsQueue[0][CRITICAL] = <<2>>

(* C15 *)

\* Thread w takes the task it starts from its own affinity FIFOs.
TakesAffinity(w, t) ==
  \E p \in AfBands(w) :
    /\ t = Head(afQueue[w][p])
    /\ afQueue' = [afQueue EXCEPT ![w][p] = Tail(@)]
    /\ wsQueue' = wsQueue

\* Thread w pops the task it pushed last in a band of its own deque.
PopsOwn(w, t) ==
  \E p \in WsBands(w) :
    /\ t = Last(wsQueue[w][p])
    /\ wsQueue' = [wsQueue EXCEPT ![w][p] = Front(@)]
    /\ afQueue' = afQueue

\* Thread w, its own queues all empty, removes the oldest task of the
\* highest priority band in which thread v holds one; no affinity FIFO
\* changes.
Steals(w, v, t) ==
  /\ AfBands(w) = {} /\ WsBands(w) = {}
  /\ v # w
  /\ WsBands(v) # {}
  /\ t = Head(wsQueue[v][Min(WsBands(v))])
  /\ wsQueue' = [wsQueue EXCEPT ![v][Min(WsBands(v))] = Tail(@)]
  /\ afQueue' = afQueue

\* C15: a push is at the bottom of a deque; a task leaves the queues only
\* when a thread takes it to run it, and the thread takes from its own
\* affinity FIFOs, or pops from a band of its own deque the task pushed
\* last, or, with its own affinity FIFOs and deques all empty, steals from
\* another thread the oldest task of the highest priority band that is not
\* empty, never from an affinity FIFO.
C15_DequeDiscipline ==
  [][/\ \A v \in Workers, p \in Prios :
          /\ wsQueue'[v][p] # wsQueue[v][p] =>
               IF Len(wsQueue'[v][p]) < Len(wsQueue[v][p])
                 THEN /\ \/ wsQueue'[v][p] = Front(wsQueue[v][p])
                         \/ wsQueue'[v][p] = Tail(wsQueue[v][p])
                      /\ \E w \in Workers : Len(frame'[w]) = Len(frame[w]) + 1
                 ELSE Front(wsQueue'[v][p]) = wsQueue[v][p]
          /\ Len(afQueue'[v][p]) < Len(afQueue[v][p]) =>
               \E w \in Workers : Len(frame'[w]) = Len(frame[w]) + 1
     /\ \A w \in Workers :
          (Len(frame'[w]) = Len(frame[w]) + 1 /\ cont[w] = NULL) =>
            LET t == frame'[w][1].t IN
              \/ TakesAffinity(w, t)
              \/ PopsOwn(w, t)
              \/ \E v \in Workers : Steals(w, v, t)]_vars

\* The main thread pushed B, C and A (tasks 2, 3, 1) in this order on its
\* deque: it popped A, pushed last, and thread 1 stole B, pushed first.
C15_Witness ==
  /\ scn = "help"
  /\ wsQueue[0][NORMAL] = <<3>>
  /\ frame[0] # << >> /\ Top(0).t = 1
  /\ frame[1] # << >> /\ Top(1).t = 2

(* C16 *)

\* Thread w makes a step of its own: of its script, of the task it runs or
\* of the completion protocol.
Acts(w) ==
  \/ w = 0 /\ mainpc' # mainpc
  \/ frame'[w] # frame[w]
  \/ work'[w] # work[w]

\* A deque holds tasks without affinity, an affinity FIFO tasks pinned on
\* its thread, each in the band of its priority.
C16_Queues ==
  \A s \in AllSlots :
    /\ priority[At(s)] = s[3]
    /\ IF s[1] = "ws" THEN affinity[At(s)] = ANY ELSE affinity[At(s)] = s[2]

\* The task that becomes ready (or the task set that is put back) in this
\* step is in exactly one queue after the step: the affinity FIFO of its
\* thread if it is pinned, the deque of the thread that makes the step if
\* not; a deque grows only by a step of its own thread.
C16_Push ==
  /\ \A t \in created :
       ((state'[t] = stREADY /\ state[t] = stNEW /\ cont' = cont)
          \/ (t \in isSet /\ toEnd'[t] > toEnd[t] /\ state[t] = stRUNNING
                /\ toBeEnded' = toBeEnded)) =>
         \E w \in Workers :
           /\ Acts(w)
           /\ IF affinity[t] = ANY
                THEN /\ wsQueue' = [wsQueue EXCEPT ![w][priority[t]] = Append(@, t)]
                     /\ afQueue' = afQueue
                ELSE /\ afQueue' = [afQueue EXCEPT
                                     ![affinity[t]][priority[t]] = Append(@, t)]
                     /\ wsQueue' = wsQueue
  /\ \A v \in Workers, p \in Prios :
       Len(wsQueue'[v][p]) > Len(wsQueue[v][p]) =>
         /\ Acts(v)
         /\ \A w \in Workers \ {v} : ~Acts(w)

\* C16: a task that becomes ready on thread w is placed in one queue, the
\* deque of w in the band of its priority if its affinity is ANY, else the
\* affinity FIFO of the thread it is pinned on; no thread pushes on the
\* deque of another thread; an affinity FIFO only holds tasks pinned on its
\* thread.
C16_EnqueueTarget == []C16_Queues /\ [][C16_Push]_vars

\* X (task 3) ended on thread 0, which placed Y (task 4), pinned on thread
\* 1, in the HIGH affinity FIFO of thread 1; P (task 1), pinned on thread 1
\* too, waits in the NORMAL one.
C16_Witness ==
  /\ scn = "affinity"
  /\ calls[3] # << >> /\ calls[3][1].w = 0
  /\ afQueue[1][HIGH] = <<4>>
  /\ afQueue[1][NORMAL] = <<1>>

(* C17 *)

\* The call o has no target, or its task has a successor of this kind
\* already.
Ignored(o) ==
  \/ o.op \in {"starts", "ends"} /\ o.b = NULL
  \/ o.op = "starts" /\ toBeStarted[o.a] # NULL
  \/ o.op = "ends" /\ toBeEnded[o.a] # NULL

\* In the program "twice" A keeps B as task to start and C as task to end,
\* B has no successor, and no task waits for more than its submission
\* and the one dependency declared on it.
C17_Twice ==
  scn = "twice" =>
    /\ toBeStarted[1] \in {NULL, 2} /\ toBeEnded[1] \in {NULL, 3}
    /\ toBeStarted[2] = NULL /\ toBeEnded[2] = NULL
    /\ toStart[3] <= 1 /\ toEnd[2] <= 1
    /\ toStart[2] <= 2 /\ toEnd[3] <= 2

\* C17: starts on a task that has a task to start already, ends on a task
\* that has a task to end already, and starts or ends with a NULL target
\* change nothing: no successor, no counter, no other field of any task,
\* no queue, no reference count.
C17_SecondEdgeIgnored ==
  /\ []C17_Twice
  /\ [][\A w \in Workers :
          (Calls(w) /\ Ignored(NextCall(w))) =>
            UNCHANGED <<taskVars, queueVars, refCount, submitted, work, cont,
                        calls, completed, stopVars>>]_vars

\* The six calls of the program "twice" are made, the three tasks are
\* done: A has kept its first successors, and C, the target of the second
\* starts, was not held back.
C17_Witness ==
  /\ scn = "twice"
  /\ Quiescent
  /\ \A t \in 1 .. 3 : Done(t)
  /\ toBeStarted[1] = 2 /\ toBeEnded[1] = 3

(* C18 *)

\* C18 as stated: no sequence of calls of starts and ends that pass their
\* assertions creates a cycle of dependencies.
C18_Acyclic == ~Cyclic

\* Task t is on a cycle of start dependencies only.
RECURSIVE ReachStart(_)
ReachStart(S) ==
  LET N == S \cup ({toBeStarted[x] : x \in S} \ {NULL})
  IN IF N = S THEN S ELSE ReachStart(N)
OnStartCycle(t) == t \in ReachStart({toBeStarted[t]} \ {NULL})

\* C18 amended: calls of starts and ends that pass their assertions can
\* create a cycle of dependencies, between tasks that are not DONE, and the
\* tasks of a cycle then wait for each other forever: none of them is ever
\* DONE, and the tasks of a cycle of start dependencies never leave NEW.
C18_CycleWaitsForever ==
  \A t \in created :
    /\ OnCycle(t) => ~Done(t)
    /\ OnStartCycle(t) => state[t] = stNEW

\* The program "cycle" has come to rest: A and B, submitted, wait for each
\* other to start; C was run and waits for D to end, which waits for C to
\* start.
C18_Witness ==
  /\ scn = "cycle"
  /\ Entered
  /\ \A w \in Workers : parked[w]
  /\ {1, 2, 3, 4} \subseteq submitted
  /\ OnStartCycle(1) /\ OnStartCycle(2)
  /\ OnCycle(3) /\ OnCycle(4)
  /\ state[1] = stNEW /\ state[2] = stNEW
  /\ state[3] = stRUNNING /\ completed[3] = 1 /\ state[4] = stNEW

(* C19 *)

\* The number of decrements of kind k on task t that are under way.
Pending(k, t) ==
  Cardinality(UNION {{<<w, i>> : i \in {j \in 1 .. Len(work[w]) :
                                         work[w][j].k = k /\ work[w][j].t = t}} :
                     w \in Workers})

\* Every unit of a counter stands for one thing that is still to happen:
\* the submission (toStart) or the return of the run function (toEnd),
\* one per predecessor that is not DONE, one per decrement under way.  A
\* task is DONE exactly when toEnd is zero, and RUNNING as long as its run
\* function has returned and toEnd is not zero.
C19_Counters ==
  \A t \in created :
    /\ toStart[t] = (IF t \in submitted THEN 0 ELSE 1)
                      + Cardinality({s \in StartPreds(t) : ~Done(s)})
                      + Pending("start", t)
    /\ t \notin isSet =>
         /\ toEnd[t] = (IF completed[t] = 0 THEN 1 ELSE 0)
                         + Cardinality({s \in EndPreds(t) : ~Done(s)})
                         + Pending("end", t)
         /\ completed[t] >= 1 /\ toEnd[t] > 0 => state[t] = stRUNNING
    /\ Done(t) <=> toEnd[t] = 0

\* In the program "spawnChild" A (task 1) is extended by its child C (task
\* 2): D (task 3), which A starts, waits until C and A are DONE.
C19_Extended ==
  scn = "spawnChild" => (state[3] # stNEW => Done(2) /\ Done(1))

\* What thread w has still to do once the head of its list is done.
Rest(w) == IF work[w] = << >> THEN << >> ELSE Tail(work[w])

\* A decrement of toEnd that does not reach zero changes nothing else: no
\* state, no other counter, no queue, nothing more to do.  The decrement
\* to zero makes the task DONE and leaves to its thread one decrement of
\* toEnd of the task to end and one of toStart of the task to start, in
\* this order, and nothing else.
C19_Step ==
  \A t \in created :
    /\ (toEnd'[t] < toEnd[t] /\ toEnd'[t] > 0) =>
         /\ toEnd'[t] = toEnd[t] - 1
         /\ state' = state
         /\ toStart' = toStart
         /\ \A u \in Tasks \ {t} : toEnd'[u] = toEnd[u]
         /\ UNCHANGED queueVars
         /\ \E w \in Workers :
              /\ work[w] # << >>
              /\ work' = [work EXCEPT ![w] = Tail(@)]
    /\ (Done(t)' /\ ~Done(t)) =>
         /\ toEnd[t] = 1 /\ toEnd'[t] = 0
         /\ state[t] = stRUNNING
         /\ \A u \in Tasks \ {t} : state'[u] = state[u] /\ toEnd'[u] = toEnd[u]
         /\ toStart' = toStart
         /\ UNCHANGED queueVars
         /\ \E w \in Workers :
              /\ work[w] # << >>
              /\ Len(work'[w]) = Len(Rest(w))
                                   + (IF toBeEnded[t] # NULL THEN 1 ELSE 0)
                                   + (IF toBeStarted[t] # NULL THEN 1 ELSE 0)
              /\ toBeEnded[t] # NULL =>
                   work'[w][1].k = "end" /\ work'[w][1].t = toBeEnded[t]
              /\ toBeStarted[t] # NULL =>
                   LET i == IF toBeEnded[t] # NULL THEN 2 ELSE 1 IN
                     work'[w][i].k = "start" /\ work'[w][i].t = toBeStarted[t]
              /\ \A v \in Workers \ {w} : work'[v] = work[v]
    /\ (toStart'[t] < toStart[t] /\ toStart'[t] = 0 /\ Pending("start", t) > 0) =>
         /\ state'[t] = stREADY
         /\ InQueue(t)'

\* C19: the return of the run function decrements toEnd once; a task whose
\* toEnd is still above zero stays RUNNING and its successors are not
\* touched; when toEnd reaches zero the task is DONE and toEnd of the task
\* it ends and toStart of the task it starts are decremented once each, a
\* task whose toEnd reaches zero that way being DONE in its turn, a task
\* whose toStart reaches zero being put in a queue; a task extended by
\* children releases its successors when the last child is DONE.
C19_FinishProtocol ==
  /\ []C19_Counters
  /\ []C19_Extended
  /\ [][C19_Step]_vars

\* The run function of A has returned and A is still RUNNING, extended by
\* its child C that is not DONE: D, the task A starts, has not been
\* touched.
C19_Witness ==
  /\ scn = "spawnChild"
  /\ completed[1] = 1 /\ state[1] = stRUNNING /\ toEnd[1] = 1
  /\ \A w \in Workers : work[w] = << >>
  /\ toBeEnded[2] = 1 /\ ~Done(2)
  /\ toBeStarted[1] = 3 /\ state[3] = stNEW /\ toStart[3] = 1

(* C20 *)

\* The scheduler has not given up yet the reference it holds on task t
\* since Task::Task: the task is not DONE, or the thread that made it DONE
\* is not through with the decrements of its successors.
SchedulerHolds(t) ==
  \/ ~Done(t)
  \/ \E w \in Workers : \E i \in 1 .. Len(work[w]) : work[w][i].rel = t

\* The task was deleted: its reference count went down to zero.
Deleted(t) == t \in created /\ refCount[t] = 0

\* The number of Ref<Task> of tasks that are not deleted which hold task t.
RefsOn(t) ==
  Cardinality({s \in created : ~Deleted(s) /\ toBeStarted[s] = t})
    + Cardinality({s \in created : ~Deleted(s) /\ toBeEnded[s] = t})

\* C20: the reference count of a task is one for the scheduler, from
\* Task::Task until the task is DONE and its successors are decremented,
\* plus one per Ref<Task> of a task not deleted that holds it (so the
\* reference of the scheduler is given up once); it is not zero while the
\* task is submitted and NEW, READY or RUNNING; the task a task starts or
\* ends is not deleted before this task is DONE and has decremented its
\* counter.
C20_References ==
  \A t \in created :
    /\ refCount[t] = (IF SchedulerHolds(t) THEN 1 ELSE 0) + RefsOn(t)
    /\ (state[t] \in {stREADY, stRUNNING} \/ (state[t] = stNEW /\ t \in submitted))
         => refCount[t] >= 1
    /\ \A u \in Edges(t) : SchedulerHolds(t) => refCount[u] >= 1

\* C (task 3) of the chain is DONE and has decremented toStart of B (task
\* 2), which it held: C is deleted, and B, ready, is held by the scheduler
\* only; A (task 1) is held by the scheduler and by B.
C20_Witness ==
  /\ scn = "chain"
  /\ Done(3) /\ refCount[3] = 0
  /\ toBeStarted[3] = 2 /\ state[2] = stREADY /\ refCount[2] = 1
  /\ toBeStarted[2] = 1 /\ refCount[1] = 2

====
